---- MODULE Spec2Model ----
(***************************************************************************)
(* A model of lib/spring_config.py: one run of main(), from the reading of *)
(* the environment to the last line written.                               *)
(*                                                                         *)
(* Strings the program takes apart (keys, values, destinations, paths,     *)
(* formats) are sequences of one-character strings.  Regular expressions   *)
(* and the fixed texts of diagnostics are never taken apart and are kept   *)
(* as single strings; an output line is the sequence of the pieces print   *)
(* writes, in order.  Property values are strings.                         *)
(***************************************************************************)
EXTENDS Integers, Sequences, FiniteSets, TLC

VARIABLES
    pc,            \* the place the run has reached
    vcap_config,   \* the global vcap_config (<<>> before it is read)
    log_level,     \* the global log_level
    appinfo,       \* main's appinfo
    service,       \* main's service (<<>> is None)
    access_token,  \* get_spring_cloud_config's access_token (<<>> is None)
    config,        \* the body the config server answered with
    targets,       \* save_config_properties' targets
    idx,           \* the position of the second loop over targets
    open_files,    \* the paths of the files that are open
    stdout,        \* what was written to sys.stdout, piece by piece
    stderr,        \* what was written to sys.stderr, piece by piece
    files,         \* the content of every file opened so far, by path
    exit_status,   \* the exit status of the process (None while it runs)
    fetched,       \* history: how the request to the config server ended
    calls          \* history: the calls of write_property_file

vars == <<pc, vcap_config, log_level, appinfo, service, access_token,
          config, targets, idx, open_files, stdout, stderr, files, exit_status,
          fetched, calls>>

----------------------------------------------------------------------------
(* Bounds of the inputs.                                                   *)

\* the longest list of property sources the config server returns
MaxSources == 2

\* the longest list of targets given in VCAPX_CONFIG
MaxTargets == 2

----------------------------------------------------------------------------
(* Strings.                                                                *)

None == "None"

\* None where a dict or a string taken apart is expected
NoneSeq == <<>>

s_env == <<"e", "n", "v">>
s_stderr == <<"s", "t", "d", "e", "r", "r">>
s_stdout == <<"s", "t", "d", "o", "u", "t">>
s_file == <<"f", "i", "l", "e", ":">>
s_properties == <<"p", "r", "o", "p", "e", "r", "t", "i", "e", "s">>
s_text == <<"t", "e", "x", "t">>
s_yml == <<"y", "m", "l">>
s_json == <<"j", "s", "o", "n">>
s_bogus == <<"b", "o", "g", "u", "s">>
s_config_server == <<"c", "o", "n", "f", "i", "g", "-", "s", "e", "r", "v", "e", "r">>
s_out == <<"o", "u", "t">>

Digits == {"0", "1", "2", "3", "4", "5", "6", "7", "8", "9"}
LowerLetters == {"a", "b", "c", "d", "e", "f", "g", "h", "i", "j", "k", "l", "m",
                 "n", "o", "p", "q", "r", "s", "t", "u", "v", "w", "x", "y", "z"}
UpperLetters == {"A", "B", "C", "D", "E", "F", "G", "H", "I", "J", "K", "L", "M",
                 "N", "O", "P", "Q", "R", "S", "T", "U", "V", "W", "X", "Y", "Z"}

\* d.get(k, default) on a dict
Get(d, k, default) == IF k \in DOMAIN d THEN d[k] ELSE default

\* s.startswith(prefix)
StartsWith(s, prefix) ==
    /\ Len(s) >= Len(prefix)
    /\ SubSeq(s, 1, Len(prefix)) = prefix

\* s[n:]
DropFirst(s, n) == SubSeq(s, n + 1, Len(s))

\* the positions of "." in s
DotPositions(s) == {i \in 1..Len(s) : s[i] = "."}

Max(S) == CHOOSE x \in S : \A y \in S : y <= x

\* filename.rsplit('.', 1)
rsplit(filename) ==
    IF DotPositions(filename) = {}
    THEN <<filename>>
    ELSE LET d == Max(DotPositions(filename))
         IN  <<SubSeq(filename, 1, d - 1), DropFirst(filename, d)>>

----------------------------------------------------------------------------
(* re.match: a match that starts at position 0 and need not reach the end  *)
(* of the key unless the pattern ends in $.                                *)

\* $ matches at the end of the string and before a newline that ends it
AtEnd(rest) == rest = <<>> \/ rest = <<"\n">>

\* class+$ from position 0
ClassPlusEnd(class, key) ==
    \E n \in 1..Len(key) :
        /\ \A i \in 1..n : key[i] \in class
        /\ AtEnd(DropFirst(key, n))

RECURSIVE DottedEnd(_)
\* ([a-z0-9]+\.)+[a-z0-9]+$ from position 0
DottedEnd(key) ==
    \E d \in DotPositions(key) :
        /\ d >= 2
        /\ \A i \in 1..(d - 1) : key[i] \in (LowerLetters \cup Digits)
        /\ \/ ClassPlusEnd(LowerLetters \cup Digits, DropFirst(key, d))
           \/ DottedEnd(DropFirst(key, d))

re_match(pattern, key) ==
    CASE pattern = "[0-9A-Z_]+$" -> ClassPlusEnd(Digits \cup UpperLetters \cup {"_"}, key)
      [] pattern = "([a-z0-9]+\\.)+[a-z0-9]+$" -> DottedEnd(key)
      [] pattern = "[a-z0-9]+$" -> ClassPlusEnd(LowerLetters \cup Digits, key)
      [] pattern = "[a-z]+" -> Len(key) >= 1 /\ key[1] \in LowerLetters
      [] pattern = ".*" -> TRUE

----------------------------------------------------------------------------
(* The targets.                                                            *)

default_targets ==
    << [filter |-> "[0-9A-Z_]+$", target |-> s_env],
       [filter |-> "([a-z0-9]+\\.)+[a-z0-9]+$",
        target |-> s_file \o s_config_server \o <<".">> \o s_properties,
        format |-> s_properties],
       [filter |-> "[a-z0-9]+$",
        target |-> s_file \o s_config_server \o <<".">> \o s_yml,
        format |-> s_yml] >>

\* the targets an operator writes in VCAPX_CONFIG
TargetChoices ==
    { [filter |-> "[0-9A-Z_]+$"],
      [filter |-> "[a-z]+", target |-> s_file \o s_out],
      [target |-> s_file \o s_out \o <<".">> \o s_yml],
      [filter |-> "[a-z0-9]+$", target |-> s_stdout, format |-> s_json],
      [filter |-> "[0-9A-Z_]+$", target |-> s_bogus],
      [filter |-> "([a-z0-9]+\\.)+[a-z0-9]+$",
       target |-> s_file \o s_out \o <<".">> \o s_bogus] }

SeqsUpTo(S, n) == UNION {[1..m -> S] : m \in 0..n}

\* the values of VCAPX_CONFIG
VcapxConfigChoices ==
    LET levels == {<<>>} \cup {[loglevel |-> l] : l \in {0, 2}}
        lists == {<<>>} \cup {[targets |-> t] : t \in SeqsUpTo(TargetChoices, MaxTargets)}
    IN  {l @@ t : l \in levels, t \in lists}

\* the values of VCAP_APPLICATION
VcapApplicationChoices ==
    { <<>>, [application_name |-> "app"] }

tagged == <<"spring-cloud", "configuration">>

\* the values of VCAP_SERVICES, as the instances in the order the two loops
\* of find_spring_config_service visit them
VcapServicesChoices ==
    { <<>>,
      << [name |-> "db", tags |-> <<"mysql">>] >>,
      << [tags |-> <<"spring-cloud">>,
          credentials |-> [tags |-> <<"configuration">>]] >>,
      << [name |-> "db", credentials |-> [uri |-> "mysql://db"]],
         [tags |-> tagged, credentials |-> [uri |-> "https://config"]] >>,
      << [credentials |-> [tags |-> tagged, uri |-> "https://config",
                           access_token_uri |-> "https://uaa",
                           client_id |-> "id", client_secret |-> "secret"]] >> }

\* what the token endpoint answers (<<>>: urlopen raises URLError)
TokenResponses ==
    { <<>>,
      [access_token |-> "tok", token_type |-> "bearer"],
      [access_token |-> "tok"] }

k_FOO == <<"F", "O", "O">>
k_C == <<"C">>
k_7 == <<"7">>
k_a_b == <<"a", ".", "b">>
k_bar_baz == <<"b", "a", "r", ".", "b", "a", "z">>
k_a_dash_b == <<"a", "-", "b">>

\* the property sources the config server returns: each the pairs of its
\* 'source' object in order
SourceChoices ==
    { [source |-> << <<k_a_b, <<"x">>>> >>],
      [source |-> << <<k_a_b, <<"y">>>>, <<k_C, <<"z">>>> >>],
      [source |-> << <<k_7, <<"1">>>>, <<k_a_dash_b, <<"1">>>> >>],
      [source |-> << <<k_FOO, <<"1">>>>, <<k_bar_baz, <<"2">>>> >>] }

\* the bodies the config server answers with
ConfigChoices ==
    {[name |-> "app"]} \cup
    {[propertySources |-> s] : s \in SeqsUpTo(SourceChoices, MaxSources)}

----------------------------------------------------------------------------
(* Output.                                                                 *)

RECURSIVE Join(_)
\* the arguments of print, separated by one space
Join(args) ==
    IF Len(args) = 0 THEN <<>>
    ELSE IF Len(args) = 1 THEN args[1]
    ELSE args[1] \o <<" ">> \o Join(Tail(args))

\* print(*args, file=f): what a text stream receives
print(args) == Join(args) \o <<"\n">>

\* what the interpreter writes to sys.stderr for an exception nobody catches
Traceback(exc) == print(<< <<"Traceback (most recent call last):">> >>) \o print(<< <<exc>> >>)

----------------------------------------------------------------------------
Init ==
    /\ pc = "get_vcap_config"
    /\ vcap_config = NoneSeq
    /\ log_level = 1
    /\ appinfo = NoneSeq
    /\ service = NoneSeq
    /\ access_token = NoneSeq
    /\ config = NoneSeq
    /\ targets = <<>>
    /\ idx = 0
    /\ open_files = {}
    /\ stdout = <<>>
    /\ stderr = <<>>
    /\ files = <<>>
    /\ exit_status = None
    /\ fetched = None
    /\ calls = <<>>

\* an exception nobody catches ends the run
Uncaught(exc) ==
    /\ pc' = "crashed"
    /\ exit_status' = "1"
    /\ stderr' = stderr \o Traceback(exc)

\* main: get_vcap_config()
get_vcap_config ==
    /\ pc = "get_vcap_config"
    /\ \E env \in VcapxConfigChoices :
        /\ vcap_config' = env
        /\ log_level' = Get(env, "loglevel", 1)
    /\ pc' = "get_application_info"
    /\ UNCHANGED <<appinfo, service, access_token, config, targets, idx, open_files,
                   stdout, stderr, files, exit_status, fetched, calls>>

\* main: appinfo = get_application_info()
get_application_info ==
    /\ pc = "get_application_info"
    /\ \E vcap_application \in VcapApplicationChoices :
        LET name == Get(vcap_application, "application_name", None)
        IN  IF name = None
            THEN /\ stderr' = stderr \o
                        print(<< <<"VCAP_APPLICATION must specify application_name">> >>)
                 /\ exit_status' = "1"
                 /\ pc' = "exit"
                 /\ appinfo' = [name |-> None]
            ELSE /\ appinfo' = [name |-> name,
                                profile |-> Get(vcap_application, "space_name", "default")]
                 /\ pc' = "find_spring_config_service"
                 /\ UNCHANGED <<stderr, exit_status>>
    /\ UNCHANGED <<vcap_config, log_level, service, access_token, config, targets, idx,
                   open_files, stdout, files, fetched, calls>>

\* 'spring-cloud' in tags and 'configuration' in tags
IsConfigService(instance) ==
    LET tags == Get(instance, "tags", <<>>) \o
                Get(Get(instance, "credentials", <<>>), "tags", <<>>)
    IN  /\ \E i \in 1..Len(tags) : tags[i] = "spring-cloud"
        /\ \E i \in 1..Len(tags) : tags[i] = "configuration"

\* the first instance with both tags, or None
find_spring_config_service(vcap_services) ==
    LET found == {i \in 1..Len(vcap_services) : IsConfigService(vcap_services[i])}
    IN  IF found = {} THEN NoneSeq
        ELSE vcap_services[CHOOSE i \in found : \A j \in found : i <= j]

\* main: service = find_spring_config_service(appinfo), and the test on it
find_service ==
    /\ pc = "find_spring_config_service"
    /\ \E vcap_services \in VcapServicesChoices :
        LET found == find_spring_config_service(vcap_services)
        IN  /\ service' = found
            /\ IF found = NoneSeq
               THEN pc' = "done" /\ exit_status' = "0"
               ELSE pc' = "get_access_token" /\ UNCHANGED exit_status
    /\ UNCHANGED <<vcap_config, log_level, appinfo, access_token, config, targets, idx,
                   open_files, stdout, stderr, files, fetched, calls>>

\* get_access_token(credentials), given what the token endpoint does:
\* the value returned and the exception raised ("" when none is)
get_access_token(credentials, response) ==
    IF ~("access_token_uri" \in DOMAIN credentials)
    THEN [value |-> NoneSeq, raises |-> ""]
    ELSE IF DOMAIN response = {}
    THEN [value |-> NoneSeq, raises |-> "URLError"]
    ELSE IF ~("token_type" \in DOMAIN response)
    THEN [value |-> NoneSeq, raises |-> "TypeError"]
    ELSE [value |-> <<response.token_type, " ", response.access_token>>, raises |-> ""]

\* get_spring_cloud_config, to the call of get_access_token
acquire_token ==
    /\ pc = "get_access_token"
    /\ \E response \in TokenResponses :
        LET credentials == Get(service, "credentials", <<>>)
            got == get_access_token(credentials, response)
            trace == IF log_level > 1
                     THEN print(<< <<"spring-cloud-config:">> >>) \o
                          <<"json.dump(service)">> \o print(<<>>)
                     ELSE <<>>
        IN  IF got.raises # ""
            THEN /\ pc' = "crashed"
                 /\ exit_status' = "1"
                 /\ stderr' = stderr \o trace \o Traceback(got.raises)
                 /\ UNCHANGED access_token
            ELSE /\ access_token' = got.value
                 /\ pc' = "get_config"
                 /\ stderr' = stderr \o trace
                 /\ UNCHANGED exit_status
    /\ UNCHANGED <<vcap_config, log_level, appinfo, service, config, targets, idx,
                   open_files, stdout, files, fetched, calls>>

\* how the request to the config server ends
FetchOutcomes == {"ok", "HTTPError", "URLError", "ValueError"}

\* the except clause of get_spring_cloud_config: what it writes and the
\* exception it raises itself; only an HTTPError has a read()
handle_URLError(outcome) ==
    IF outcome = "HTTPError"
    THEN [err |-> print(<< <<"err.read()">> >>) \o print(<< <<"HTTPError">> >>),
          raises |-> ""]
    ELSE [err |-> <<>>, raises |-> "AttributeError"]

\* get_spring_cloud_config, from the test of uri to the call of
\* save_config_properties.  Its locals, and main's, are not read again once
\* the request is made.
get_config ==
    /\ pc = "get_config"
    /\ LET credentials == Get(service, "credentials", <<>>)
       IN  IF ~("uri" \in DOMAIN credentials)
           THEN /\ stderr' = stderr \o
                       print(<< <<"services of type spring-config-server must specify a uri">> >>)
                /\ pc' = "done"
                /\ exit_status' = "0"
                /\ UNCHANGED <<config, fetched, appinfo, service, access_token>>
           ELSE \E outcome \in FetchOutcomes :
                LET get == IF log_level > 1
                           THEN print(<< <<"GET">>,
                                         <<credentials.uri, "/", appinfo.name, "/", appinfo.profile>> >>)
                           ELSE <<>>
                IN
                /\ fetched' = outcome
                /\ appinfo' = NoneSeq
                /\ service' = NoneSeq
                /\ access_token' = NoneSeq
                /\ IF outcome = "ok"
                   THEN \E body \in ConfigChoices :
                        /\ config' = body
                        /\ stderr' = stderr \o get \o
                               (IF log_level > 1
                                THEN <<"json.dump(config)">> \o print(<<>>) ELSE <<>>)
                        /\ pc' = "save_config_properties"
                        /\ UNCHANGED exit_status
                   ELSE IF outcome = "ValueError"
                   THEN /\ stderr' = stderr \o get \o Traceback(outcome)
                        /\ pc' = "crashed"
                        /\ exit_status' = "1"
                        /\ UNCHANGED config
                   ELSE LET h == handle_URLError(outcome)
                        IN  /\ stderr' = stderr \o get \o h.err \o
                                   (IF h.raises # "" THEN Traceback(h.raises) ELSE <<>>)
                            /\ pc' = IF h.raises # "" THEN "crashed" ELSE "done"
                            /\ exit_status' = IF h.raises # "" THEN "1" ELSE "0"
                            /\ UNCHANGED config
    /\ UNCHANGED <<vcap_config, log_level, targets, idx, open_files, stdout, files, calls>>

----------------------------------------------------------------------------
(* save_config_properties: the first loop.                                 *)

\* the position of key in the pairs of a dict, 0 when it has none
IndexOf(pairs, key) ==
    LET at == {i \in 1..Len(pairs) : pairs[i][1] = key}
    IN  IF at = {} THEN 0 ELSE CHOOSE i \in at : TRUE

\* d[key] = value on a dict kept as its pairs in insertion order
DictSet(pairs, key, value) ==
    IF IndexOf(pairs, key) = 0
    THEN Append(pairs, <<key, value>>)
    ELSE [pairs EXCEPT ![IndexOf(pairs, key)] = <<key, value>>]

Reverse(s) == [i \in 1..Len(s) |-> s[Len(s) + 1 - i]]

\* the sources taken in the order listed, not reversed
sources_as_listed(body) == Get(body, "propertySources", <<>>)

\* reversed(config.get('propertySources', []))
sources_in_order(body) == Reverse(Get(body, "propertySources", <<>>))

\* the inner loop left at the first target that matches
first_receiver(tgts, key) ==
    LET all == {i \in 1..Len(tgts) : re_match(Get(tgts[i], "filter", ".*"), key)}
    IN  {i \in all : \A j \in all : i <= j}

\* the targets the inner loop stores the key in: every one whose filter
\* matches
receivers(tgts, key) ==
    {i \in 1..Len(tgts) : re_match(Get(tgts[i], "filter", ".*"), key)}

\* the body of the inner loop for a target that matches
store(target, key, value) ==
    [target |-> Get(target, "target", s_stderr),
     properties |-> DictSet(Get(target, "properties", <<>>), key, value)] @@ target

\* the inner loop for one key
route_key(tgts, key, value) ==
    [i \in 1..Len(tgts) |->
        IF i \in receivers(tgts, key) THEN store(tgts[i], key, value) ELSE tgts[i]]

RECURSIVE route_source(_, _)
\* the loop over the pairs of one source
route_source(tgts, pairs) ==
    IF pairs = <<>> THEN tgts
    ELSE route_source(route_key(tgts, Head(pairs)[1], Head(pairs)[2]), Tail(pairs))

RECURSIVE route_sources(_, _)
\* the loop over the sources, in the order given
route_sources(tgts, srcs) ==
    IF srcs = <<>> THEN tgts
    ELSE route_sources(route_source(tgts, Get(Head(srcs), "source", <<>>)), Tail(srcs))

\* the report made whatever the log level
reports_ignored_always(used, level) == ~used

\* whether the key is reported as ignored
reports_ignored(used, level) == ~used /\ level > 0

RECURSIVE trace_key(_, _, _)
\* the "key -> target" lines of one key, in target order
trace_key(tgts, key, level) ==
    IF tgts = <<>> \/ ~(level > 1) THEN <<>>
    ELSE (IF re_match(Get(Head(tgts), "filter", ".*"), key)
          THEN print(<<key, <<"->">>, Get(Head(tgts), "target", s_stderr)>>)
          ELSE <<>>) \o trace_key(Tail(tgts), key, level)

\* what the first loop writes to sys.stderr for one key
log_key(tgts, key, level) ==
    trace_key(tgts, key, level) \o
    (IF reports_ignored(receivers(tgts, key) # {}, level)
     THEN print(<< <<"Property">>, key,
                   <<"was ignored because it did not match any target">> >>)
     ELSE <<>>)

RECURSIVE log_source(_, _, _)
log_source(tgts, pairs, level) ==
    IF pairs = <<>> THEN <<>>
    ELSE log_key(tgts, Head(pairs)[1], level) \o log_source(tgts, Tail(pairs), level)

RECURSIVE log_sources(_, _, _)
log_sources(tgts, srcs, level) ==
    IF srcs = <<>> THEN <<>>
    ELSE log_source(tgts, Get(Head(srcs), "source", <<>>), level) \o
         log_sources(tgts, Tail(srcs), level)

\* save_config_properties, to the end of the first loop.  A targets list
\* given in VCAPX_CONFIG is the list vcap_config holds: the loop changes both.
route ==
    /\ pc = "save_config_properties"
    /\ LET chosen == Get(vcap_config, "targets", default_targets)
           routed == route_sources(chosen, sources_in_order(config))
       IN  /\ targets' = routed
           /\ vcap_config' = IF "targets" \in DOMAIN vcap_config
                             THEN [vcap_config EXCEPT !.targets = routed]
                             ELSE vcap_config
           /\ stderr' = stderr \o log_sources(chosen, sources_in_order(config), log_level)
    /\ idx' = 1
    /\ pc' = "targets"
    /\ UNCHANGED <<log_level, appinfo, service, access_token, config, open_files,
                   stdout, files, exit_status, fetched, calls>>

----------------------------------------------------------------------------
(* write_property_file.                                                    *)

Has(s, c) == \E i \in 1..Len(s) : s[i] = c

RECURSIVE Escaped(_, _)
\* the body of repr(bytes) for ASCII text: the quote and the backslash get
\* a backslash, a newline becomes \n
Escaped(b, quote) ==
    IF b = <<>> THEN <<>>
    ELSE (IF Head(b) = quote \/ Head(b) = "\\" THEN <<"\\", Head(b)>>
          ELSE IF Head(b) = "\n" THEN <<"\\", "n">>
          ELSE <<Head(b)>>) \o Escaped(Tail(b), quote)

\* str(b) of a bytes object b, which is what print writes for it
bytes_str(b) ==
    LET quote == IF Has(b, "'") /\ ~Has(b, "\"") THEN "\"" ELSE "'"
    IN  <<"b", quote>> \o Escaped(b, quote) \o <<quote>>

RECURSIVE json_escape(_)
\* the inside of a JSON string
json_escape(str) ==
    IF str = <<>> THEN <<>>
    ELSE (IF Head(str) = "\"" \/ Head(str) = "\\" THEN <<"\\", Head(str)>>
          ELSE IF Head(str) = "\n" THEN <<"\\", "n">>
          ELSE <<Head(str)>>) \o json_escape(Tail(str))

json_string(str) == <<"\"">> \o json_escape(str) \o <<"\"">>

RECURSIVE json_pairs(_)
json_pairs(properties) ==
    IF properties = <<>> THEN <<>>
    ELSE <<"    [", "\n", "        ">> \o json_string(Head(properties)[1]) \o
         <<",", "\n", "        ">> \o json_string(Head(properties)[2]) \o
         <<"\n", "    ]">> \o
         (IF Len(properties) > 1 THEN <<",">> ELSE <<>>) \o <<"\n">> \o
         json_pairs(Tail(properties))

\* json.dump(properties, file, indent=4) of a list of pairs that is not
\* empty; no newline ends it
json_dump(properties) == <<"[", "\n">> \o json_pairs(properties) \o <<"]">>

RECURSIVE yml_lines(_)
yml_lines(properties) ==
    IF properties = <<>> THEN <<>>
    ELSE print(<<Head(properties)[1], Head(properties)[2]>>) \o
         yml_lines(Tail(properties))

RECURSIVE properties_lines(_)
\* print(key.encode() + b'=' + value.encode(), file=file) for every pair
properties_lines(properties) ==
    IF properties = <<>> THEN <<>>
    ELSE print(<< bytes_str(Head(properties)[1] \o <<"=">> \o Head(properties)[2]) >>) \o
         properties_lines(Tail(properties))

\* write_property_file(file, properties, format) for a list of pairs that
\* is not empty: what the file receives, what sys.stderr receives and the
\* exception raised.  A file opened 'wb' takes bytes only: the first write
\* of a str raises TypeError and leaves it empty.
write_property_file(binary, properties, format) ==
    LET text == CASE format = s_json -> json_dump(properties)
                  [] format = s_yml -> print(<< <<"---">> >>) \o yml_lines(properties)
                  [] format \in {s_properties, s_text} -> properties_lines(properties)
                  [] OTHER -> <<>>
    IN  IF format \in {s_json, s_yml, s_properties, s_text}
        THEN IF binary
             THEN [out |-> <<>>, err |-> <<>>, raises |-> "TypeError"]
             ELSE [out |-> text, err |-> <<>>, raises |-> ""]
        ELSE [out |-> <<>>,
              err |-> print(<< <<"Illegal format">>, format, <<"in VCAPX_CONFIG">> >>),
              raises |-> ""]

----------------------------------------------------------------------------
(* save_config_properties: the second loop.                                *)

\* list(target.get('properties', {}).items())
properties_of(target) == Get(target, "properties", <<>>)

destination_of(target) == Get(target, "target", s_stderr)

\* a file name without '.' given the default format of the streams
format_of_text(target, filename) ==
    LET parts == rsplit(filename)
    IN  Get(target, "format", IF Len(parts) > 1 THEN parts[2] ELSE s_text)

\* the format of a file target: the one given, or the text after the last
\* '.' of the file name, or 'properties'
format_of(target, filename) ==
    LET parts == rsplit(filename)
    IN  Get(target, "format", IF Len(parts) > 1 THEN parts[2] ELSE s_properties)

\* a close that an exception skips
with_exit_leaks(open, filename, failed) == IF failed THEN open ELSE open \ {filename}

\* what leaving the with block does to the open files, whether an exception
\* is passing through it or not
with_exit(open, filename, failed) == open \ {filename}

InLoop == pc = "targets" /\ idx \in 1..Len(targets)

\* the loop passes a target whose bucket is empty
skip_target ==
    /\ InLoop
    /\ Len(properties_of(targets[idx])) < 1
    /\ idx' = idx + 1
    /\ UNCHANGED <<pc, vcap_config, log_level, appinfo, service, access_token, config,
                   targets, open_files, stdout, stderr, files, exit_status, fetched, calls>>

RECURSIVE env_lines(_)
\* add_environment_variable(key, value) for every pair
env_lines(properties) ==
    IF properties = <<>> THEN <<>>
    ELSE print(<<Head(properties)[1], Head(properties)[2]>>) \o env_lines(Tail(properties))

write_env ==
    /\ InLoop
    /\ Len(properties_of(targets[idx])) >= 1
    /\ destination_of(targets[idx]) = s_env
    /\ stdout' = stdout \o env_lines(properties_of(targets[idx]))
    /\ idx' = idx + 1
    /\ UNCHANGED <<pc, vcap_config, log_level, appinfo, service, access_token, config,
                   targets, open_files, stderr, files, exit_status, fetched, calls>>

write_stream ==
    /\ InLoop
    /\ Len(properties_of(targets[idx])) >= 1
    /\ destination_of(targets[idx]) \in {s_stderr, s_stdout}
    /\ LET format == Get(targets[idx], "format", s_text)
           r == write_property_file(FALSE, properties_of(targets[idx]), format)
       IN  /\ IF destination_of(targets[idx]) = s_stderr
              THEN /\ stderr' = stderr \o r.out \o r.err
                   /\ UNCHANGED stdout
              ELSE /\ stdout' = stdout \o r.out
                   /\ stderr' = stderr \o r.err
           /\ calls' = Append(calls, [target |-> idx, binary |-> FALSE, format |-> format])
    /\ idx' = idx + 1
    /\ UNCHANGED <<pc, vcap_config, log_level, appinfo, service, access_token, config,
                   targets, open_files, files, exit_status, fetched>>

IsFile(target) == StartsWith(destination_of(target), s_file)

\* destination[5:]
filename_of(target) == DropFirst(destination_of(target), 5)

\* open(filename, 'wb'): the file is created or emptied, or OSError is raised
open_file ==
    /\ InLoop
    /\ Len(properties_of(targets[idx])) >= 1
    /\ destination_of(targets[idx]) \notin {s_env, s_stderr, s_stdout}
    /\ IsFile(targets[idx])
    /\ \E opened \in BOOLEAN :
        IF opened /\ filename_of(targets[idx]) # <<>>
        THEN /\ open_files' = open_files \cup {filename_of(targets[idx])}
             /\ files' = (filename_of(targets[idx]) :> <<>>) @@ files
             /\ pc' = "with"
             /\ UNCHANGED <<stderr, exit_status>>
        ELSE /\ Uncaught("OSError")
             /\ UNCHANGED <<open_files, files>>
    /\ UNCHANGED <<vcap_config, log_level, appinfo, service, access_token, config,
                   targets, idx, stdout, fetched, calls>>

\* the body of the with block
serialize ==
    /\ pc = "with"
    /\ LET filename == filename_of(targets[idx])
           format == format_of(targets[idx], filename)
           r == write_property_file(TRUE, properties_of(targets[idx]), format)
       IN  /\ files' = [files EXCEPT ![filename] = @ \o r.out]
           /\ stderr' = stderr \o r.err
           /\ calls' = Append(calls, [target |-> idx, binary |-> TRUE, format |-> format])
           /\ pc' = IF r.raises # "" THEN "unwind" ELSE "leave"
    /\ UNCHANGED <<vcap_config, log_level, appinfo, service, access_token, config,
                   targets, idx, open_files, stdout, exit_status, fetched>>

\* the end of the with block, reached normally or by the exception
close_file ==
    /\ pc \in {"leave", "unwind"}
    /\ open_files' = with_exit(open_files, filename_of(targets[idx]), pc = "unwind")
    /\ IF pc = "unwind"
       THEN /\ Uncaught("TypeError")
            /\ UNCHANGED idx
       ELSE /\ pc' = "targets"
            /\ idx' = idx + 1
            /\ UNCHANGED <<stderr, exit_status>>
    /\ UNCHANGED <<vcap_config, log_level, appinfo, service, access_token, config,
                   targets, stdout, files, fetched, calls>>

illegal_target ==
    /\ InLoop
    /\ Len(properties_of(targets[idx])) >= 1
    /\ destination_of(targets[idx]) \notin {s_env, s_stderr, s_stdout}
    /\ ~IsFile(targets[idx])
    /\ stderr' = stderr \o print(<< <<"Illegal target type">>, destination_of(targets[idx]),
                                    <<"in VCAPX_CONFIG">> >>)
    /\ idx' = idx + 1
    /\ UNCHANGED <<pc, vcap_config, log_level, appinfo, service, access_token, config,
                   targets, open_files, stdout, files, exit_status, fetched, calls>>

\* the line add_environment_variable('VCAP_CONFIG', json.dumps(vcap_config))
\* writes; the JSON text is kept as one piece, its content is vcap_config
vcap_config_line == print(<< <<"VCAP_CONFIG">>, <<"json.dumps(vcap_config)">> >>)

\* save_config_properties, after the second loop
update_vcap_config ==
    /\ pc = "targets"
    /\ idx = Len(targets) + 1
    /\ vcap_config' = [targets |-> targets] @@ vcap_config
    /\ stdout' = stdout \o vcap_config_line
    /\ pc' = "done"
    /\ exit_status' = "0"
    /\ UNCHANGED <<log_level, appinfo, service, access_token, config, targets, idx,
                   open_files, stderr, files, fetched, calls>>

Next ==
    \/ get_vcap_config
    \/ get_application_info
    \/ find_service
    \/ acquire_token
    \/ get_config
    \/ route
    \/ skip_target
    \/ write_env
    \/ write_stream
    \/ open_file
    \/ serialize
    \/ close_file
    \/ illegal_target
    \/ update_vcap_config

Spec == Init /\ [][Next]_vars

----------------------------------------------------------------------------
(* Reading the state.                                                      *)

\* the positions that end a line of the stream: its newlines, and the place
\* after its last piece when no newline ends it
LineEnds(stream) ==
    {i \in 1..Len(stream) : stream[i] = "\n"} \cup
    (IF Len(stream) > 0 /\ stream[Len(stream)] # "\n" THEN {Len(stream) + 1} ELSE {})

\* the line that ends at position e, without its newline
LineEndingAt(stream, e) ==
    LET before == {i \in LineEnds(stream) : i < e}
        start == IF before = {} THEN 1 ELSE 1 + (CHOOSE i \in before : \A j \in before : j <= i)
    IN  SubSeq(stream, start, e - 1)

\* the lines of a stream, without their newlines
Lines(stream) ==
    LET ends == LineEnds(stream)
    IN  [n \in 1..Cardinality(ends) |->
            LineEndingAt(stream, CHOOSE e \in ends : Cardinality({x \in ends : x <= e}) = n)]

Range(s) == {s[i] : i \in 1..Len(s)}

\* the text occurs in the stream
Occurs(stream, text) ==
    \E i \in 1..Len(stream) :
        /\ i + Len(text) - 1 <= Len(stream)
        /\ SubSeq(stream, i, i + Len(text) - 1) = text

Ended == pc \in {"done", "exit", "crashed"}

\* the first loop of save_config_properties is over
Routed == fetched = "ok" /\ pc # "save_config_properties"

\* the property sources as the config server listed them
Listed == Get(config, "propertySources", <<>>)

PairsAt(p) == Get(Listed[p], "source", <<>>)

\* the list positions whose source has the key
PositionsOf(key) == {p \in 1..Len(Listed) : IndexOf(PairsAt(p), key) # 0}

\* the keys of all sources
ListedKeys == UNION {{pair[1] : pair \in Range(PairsAt(p))} : p \in 1..Len(Listed)}

ValueAt(p, key) == PairsAt(p)[IndexOf(PairsAt(p), key)][2]

\* the rules whose bucket has the key
Holders(key) == {i \in 1..Len(targets) : IndexOf(properties_of(targets[i]), key) # 0}

\* the rules whose pattern matches the key at position 0
Matching(key) == {i \in 1..Len(targets) : re_match(Get(targets[i], "filter", ".*"), key)}

Min(S) == CHOOSE x \in S : \A y \in S : x <= y

----------------------------------------------------------------------------
(* C1 -- Merge precedence: once every source is routed, the value a bucket *)
(* holds for a key is the value of the first-listed source that has the    *)
(* key, whatever the later-listed sources give it.                         *)
C1_MergePrecedence ==
    Routed =>
        \A i \in 1..Len(targets) : \A pair \in Range(properties_of(targets[i])) :
            /\ PositionsOf(pair[1]) # {}
            /\ pair[2] = ValueAt(Min(PositionsOf(pair[1])), pair[1])

\* a key two sources give different values is in a bucket
C1_Witness ==
    /\ Routed
    /\ \E key \in ListedKeys :
        /\ Holders(key) # {}
        /\ \E p, q \in PositionsOf(key) : p < q /\ ValueAt(p, key) # ValueAt(q, key)

(* C2, as claimed -- First-match routing: once routed, a key some rule     *)
(* matches is held by exactly one rule, the lowest-index rule that matches *)
(* it, and by no later rule that matches it too.                           *)
C2_FirstMatchOnly ==
    Routed =>
        \A key \in ListedKeys :
            Holders(key) = IF Matching(key) = {} THEN {} ELSE {Min(Matching(key))}

(* C2, amended -- once routed, a key is held by every rule whose pattern   *)
(* matches it at position 0 and by no other rule.                          *)
C2_EveryMatch ==
    Routed => \A key \in ListedKeys : Holders(key) = Matching(key)

\* a key is held by two rules
C2_Witness ==
    /\ Routed
    /\ \E key \in ListedKeys : Cardinality(Holders(key)) >= 2

(* C3 -- Destination isolation: when the run has ended after routing,      *)
(* every target with a bucket that is not empty has been handled, also     *)
(* those after a target whose handling failed.                             *)
C3_DestinationIsolation ==
    (Routed /\ Ended) =>
        \A j \in 1..Len(targets) :
            Len(properties_of(targets[j])) >= 1 => j <= idx

(* C4 -- Abort only on missing identity: a run ends with a status other    *)
(* than 0 only where get_application_info found no application_name.       *)
C4_AbortOnlyOnMissingIdentity ==
    (Ended /\ exit_status # "0") => pc = "exit"

(* C5 -- Failed fetch precedes no routing: when the request to the config  *)
(* server fails with a URLError, something is written to stderr, nothing   *)
(* is routed or written, no VCAP_CONFIG line is printed and the run ends   *)
(* with status 0.                                                          *)
C5_FailedFetch ==
    fetched \in {"URLError", "HTTPError"} =>
        /\ stderr # <<>>
        /\ targets = <<>>
        /\ stdout = <<>>
        /\ DOMAIN files = {}
        /\ calls = <<>>
        /\ pc = "done"
        /\ exit_status = "0"

\* the line that reports an ignored key
IgnoredLine(key) ==
    Join(<< <<"Property">>, key, <<"was ignored because it did not match any target">> >>)

(* C6 -- Unmatched-key accounting: once routed, a key no rule matches is   *)
(* in no bucket, in nothing written to stdout or to a file, and on stderr  *)
(* only in the line that reports it as ignored, which is there if and only *)
(* if the log level is above 0; every other key is in a bucket.            *)
C6_UnmatchedKey ==
    Routed =>
        LET reported == Range(Lines(stderr))
        IN  \A key \in ListedKeys :
                IF Matching(key) = {}
                THEN /\ Holders(key) = {}
                     /\ ~Occurs(stdout, key)
                     /\ \A f \in DOMAIN files : ~Occurs(files[f], key)
                     /\ \A line \in reported :
                            Occurs(line, key) => line = IgnoredLine(key)
                     /\ (IgnoredLine(key) \in reported) <=> (log_level > 0)
                ELSE Holders(key) # {}

\* one key is ignored and another is routed
C6_Witness ==
    /\ Routed
    /\ Ended
    /\ \E key, other \in ListedKeys :
        /\ Matching(key) = {}
        /\ Holders(other) # {}

(* C7 -- Format default inference: the format write_property_file gets for *)
(* a file target is the format the rule gives; without one it is the text  *)
(* after the last '.' of the path, and 'properties' for a path with no '.'.*)
C7_FormatInference ==
    \A c \in Range(calls) :
        c.binary =>
            LET target == targets[c.target]
                path == DropFirst(target.target, 5)
            IN  IF "format" \in DOMAIN target THEN c.format = target.format
                ELSE IF ~Has(path, ".") THEN c.format = s_properties
                ELSE /\ ~Has(c.format, ".")
                     /\ \E stem \in {SubSeq(path, 1, n) : n \in 0..Len(path)} :
                            path = stem \o <<".">> \o c.format

\* a file target without a format got the format its path ends in
C7_Witness ==
    \E c \in Range(calls) :
        /\ c.binary
        /\ ~("format" \in DOMAIN targets[c.target])
        /\ Has(DropFirst(targets[c.target].target, 5), ".")
        /\ c.format = s_yml

\* a line split at its first '='
SplitAtEquals(line) ==
    LET at == {i \in 1..Len(line) : line[i] = "="}
    IN  IF at = {} THEN <<line>>
        ELSE <<SubSeq(line, 1, Min(at) - 1), DropFirst(line, Min(at))>>

(* C8 -- Round-trip for the properties format: what write_property_file    *)
(* writes to a stream in format 'properties' or 'text' is one line per     *)
(* pair, and the lines split at '=' are the pairs.                         *)
C8_RoundTrip ==
    \A c \in Range(calls) :
        (~c.binary /\ c.format \in {s_properties, s_text}) =>
            LET properties == properties_of(targets[c.target])
                out == Lines(write_property_file(c.binary, properties, c.format).out)
            IN  /\ Len(out) = Len(properties)
                /\ \A n \in 1..Len(out) : SplitAtEquals(out[n]) = properties[n]

(* C9 -- Final snapshot ordering: a run whose fetch succeeded ends with    *)
(* exactly one VCAP_CONFIG line on stdout, its last line, written after    *)
(* every target was handled, with vcap_config holding the buckets.         *)
C9_FinalSnapshot ==
    (fetched = "ok" /\ Ended) =>
        LET out == Lines(stdout)
        IN  /\ idx = Len(targets) + 1
            /\ Len(out) >= 1
            /\ out[Len(out)] \o <<"\n">> = vcap_config_line
            /\ Cardinality({n \in 1..Len(out) : out[n] \o <<"\n">> = vcap_config_line}) = 1
            /\ Get(vcap_config, "targets", <<>>) = targets

(* C10 -- File handle release: at most one file is open at any time, none  *)
(* is open when the loop goes to a target, and none when the run has       *)
(* ended, also when serialization raised.                                  *)
C10_FileRelease ==
    /\ Cardinality(open_files) <= 1
    /\ pc = "targets" => open_files = {}
    /\ Ended => open_files = {}

\* the run ended by the exception serialization raised, the file closed
C10_Witness ==
    /\ pc = "crashed"
    /\ open_files = {}
    /\ calls # <<>>
    /\ calls[Len(calls)].binary
    /\ DOMAIN files # {}
    /\ Occurs(stderr, Traceback("TypeError"))
====
